---- MODULE Spec2Model ----
(***************************************************************************)
(* Export pipeline of zotero-voyant-export.                                *)
(*                                                                         *)
(* Two implementations of the pipeline live in the repository and both are *)
(* modelled, selected by the variable impl:                                *)
(*   "res" - src/Exporter.res + src/ErrorRecovery.res, driven by           *)
(*           handleMessage of src/background.v3.res (sequential, with      *)
(*           whole-operation retry);                                       *)
(*   "js"  - the legacy lib/exporter.js (promise chains, one per record,   *)
(*           joined by all(...), no retry).                                *)
(* The external collaborators (catalog, chooser, temp storage, file I/O,   *)
(* archiver) are nondeterministic: every call picks one of the outcomes    *)
(* the code distinguishes.                                                 *)
(***************************************************************************)
EXTENDS Integers, Sequences, FiniteSets, TLC

\* Largest collection explored.
MaxItems == 3

\* defaultRetryConfig (ErrorRecovery.res:10-14)
maxAttempts == 3
delayMs == 1000
backoffMultiplier == 2

Records == 1..MaxItems

MODS_FILENAME == "MODS.bin"
DC_FILENAME == "DC.xml"
CWRC_FILENAME == "CWRC.bin"
ItemFiles == {MODS_FILENAME, DC_FILENAME, CWRC_FILENAME}

\* Content written to bagit.txt by each implementation.
BagitContentRes == "BagIt-Version: 1.0\nTag-File-Character-Encoding: UTF-8\n"
BagitContentJs == "BagIt-Version: 0.97\nTag-File-Character-Encoding: UTF-8"

VARIABLES
  impl,          \* "res" or "js": which implementation runs
  nItems,        \* collection.getChildItems().length
  paneAvail,     \* the host has an active pane
  collAvail,     \* the pane has a selected collection
  msgType,       \* type_ of the message handled by handleMessage ("none" for js)
  pc,            \* position of the job
  io,            \* kinds of external I/O invoked so far
  picked,        \* what the destination chooser returned: "none", "file", "cancel"
  tempRoot,      \* the temp directory exists
  bagit,         \* content of <tempRoot>/bagit.txt, or "absent"
  dataDir,       \* <tempRoot>/data exists
  dirs,          \* records r for which data/<r>/ exists
  files,         \* <<r, name>> for every file data/<r>/<name>
  archive,       \* an archive exists at the destination path
  ipc,           \* per record: position inside the item processor
  attempt,       \* per record: retryWithBackoff's attempt parameter while the retry
                 \* runs (the number of invocations of the operation so far)
  calls,         \* per record: invocations of the item processor
  opRes,         \* per record: what the processor's last operation produced
  ret,           \* per record: what the item processor returned to doExport
  resolved,      \* per record: some attempt obtained a local file path
  idx,           \* doExport's loop variable (1-based)
  successCount,
  failureCount,
  zipAttempt,    \* retryWithBackoff's attempt parameter for zipOperation
  zipCalls,      \* invocations of Zotero.File.zipDirectory
  zipFails,      \* invocations of zipDirectory that failed
  zipResult,     \* "none", "Ok", "Error": result of the archiving step
  completed,     \* "Export complete" has been logged
  callerSaw,     \* what doExport's caller observed: "none", "ok", "error"
  responses,     \* statuses passed to sendResponse, in order
  unhandled,     \* a promise rejection nobody handles was raised
  returned,      \* what handleMessage returned: "none", "true", "false"
  timer,         \* milliseconds of the pending delay(...) timeout, 0 when none
  fpc,           \* metadata generation: "off", "input" or "done"
  fText,         \* metadata generation: the text handed to the escaper
  fItem,         \* metadata generation: the record handed to a generator
  fDir,          \* directory creation: what is at the path and whether create succeeds
  fOut           \* metadata generation: what the applied function produced

envVars == <<impl, nItems, paneAvail, collAvail>>
fsVars == <<tempRoot, bagit, dataDir, dirs, files, archive>>
stepVars == <<ipc, attempt, opRes, ret, idx, successCount, failureCount>>
itemVars == <<calls, resolved>>
zipVars == <<zipAttempt, zipCalls, zipFails, zipResult>>
outVars == <<completed, callerSaw, responses, unhandled>>
fmtVars == <<fpc, fText, fItem, fDir, fOut>>
jobVars ==
  <<envVars, returned, timer, msgType, pc, io, picked, fsVars, stepVars, itemVars, zipVars,
    outVars>>
vars == <<jobVars, fmtVars>>

NoResult == [tag |-> "none", val |-> "none"]

(***************************************************************************)
(* Texts and records handed to the metadata generators                     *)
(*                                                                         *)
(* A text is a sequence of characters. An optional value is a sequence of  *)
(* length 0 (None / undefined) or 1 (Some).                                *)
(***************************************************************************)

\* Longest text handed to the escaper.
MaxLen == 3

\* Most creators of a record.
MaxCreators == 2

\* Most tags of a record.
MaxTags == 2

Specials == {"<", ">", "&", "\"", "'"}

\* Alphabet of the texts handed to the escaper.
Chars == Specials \cup {"a", ";"}

RECURSIVE TextsUpTo(_)
TextsUpTo(n) ==
  IF n = 0 THEN {<<>>}
  ELSE LET shorter == TextsUpTo(n - 1) IN
       shorter \cup {Append(t, c) : t \in {u \in shorter : Len(u) = n - 1}, c \in Chars}

Texts == TextsUpTo(MaxLen)

None == <<>>
Some(x) == <<x>>

\* The record handed to a generator when there is none (null / undefined).
NullItem ==
  [isNull |-> TRUE, libraryKey |-> <<>>, title |-> <<>>, creators |-> <<>>,
   date |-> None, abstractNote |-> None, itemType |-> None, publisher |-> None,
   language |-> None, rights |-> None, tags |-> None]

\* A document node: element name, attributes, serialized text content and
\* child nodes.
Node(el, attrs, text, kids) == [el |-> el, attrs |-> attrs, text |-> text, kids |-> kids]

\* No path is under test.
NoDir == [state |-> "none", createOk |-> FALSE]

NoOut == [fn |-> "none", status |-> "none", msg |-> "", text |-> <<>>, doc |-> <<>>]

\* The job before doExport is called.
JobInit ==
  /\ impl \in {"res", "js"}
  /\ nItems \in 0..MaxItems
  /\ paneAvail \in BOOLEAN
  /\ collAvail \in BOOLEAN
  /\ msgType = "none"
  /\ pc = "idle"
  /\ io = {}
  /\ picked = "none"
  /\ tempRoot = FALSE
  /\ bagit = "absent"
  /\ dataDir = FALSE
  /\ dirs = {}
  /\ files = {}
  /\ archive = FALSE
  /\ ipc = [r \in Records |-> "idle"]
  /\ attempt = [r \in Records |-> 0]
  /\ calls = [r \in Records |-> 0]
  /\ opRes = [r \in Records |-> NoResult]
  /\ ret = [r \in Records |-> "none"]
  /\ resolved = [r \in Records |-> FALSE]
  /\ idx = 1
  /\ successCount = 0
  /\ failureCount = 0
  /\ zipAttempt = 0
  /\ zipCalls = 0
  /\ zipFails = 0
  /\ zipResult = "none"
  /\ completed = FALSE
  /\ callerSaw = "none"
  /\ responses = <<>>
  /\ unhandled = FALSE
  /\ returned = "none"
  /\ timer = 0

\* The export job: metadata generation is folded into the "gen" step of the
\* item processor, the variables of the generators stay idle.
Init ==
  /\ JobInit
  /\ fpc = "off"
  /\ fText = <<>>
  /\ fItem = NullItem
  /\ fDir = NoDir
  /\ fOut = NoOut

(***************************************************************************)
(* background.v3.res: handleMessage                                        *)
(***************************************************************************)

\* handleMessage (background.v3.res:19-59): "ping" and unknown types answer
\* synchronously; "export-collection" starts Exporter.doExport.
handleMessage ==
  /\ impl = "res"
  /\ pc = "idle"
  /\ \E t \in {"export-collection", "ping", "other"} :
       /\ msgType' = t
       /\ returned' = IF t = "export-collection" THEN "true" ELSE "false"
       /\ CASE t = "export-collection" -> pc' = "pane" /\ responses' = responses
            [] t = "ping" -> pc' = "done" /\ responses' = Append(responses, "pong")
            [] OTHER -> pc' = "done" /\ responses' = Append(responses, "error")
  /\ UNCHANGED <<fmtVars, envVars, timer, io, picked, fsVars, stepVars, itemVars, zipVars,
                 completed, callerSaw, unhandled>>

\* exportSettled without the catch callback: a rejection gets no response.
exportSettledNoCatch ==
  /\ impl = "res"
  /\ pc = "settled"
  /\ responses' = IF callerSaw = "ok" THEN Append(responses, "success") ELSE responses
  /\ pc' = "done"
  /\ UNCHANGED <<fmtVars, envVars, returned, timer, msgType, io, picked, fsVars, stepVars, itemVars, zipVars,
                 completed, callerSaw, unhandled>>

\* The promise returned by doExport settles; handleMessage's then / catch
\* callback calls sendResponse (background.v3.res:28-41).
exportSettled ==
  /\ impl = "res"
  /\ pc = "settled"
  /\ responses' = Append(responses, IF callerSaw = "ok" THEN "success" ELSE "error")
  /\ pc' = "done"
  /\ UNCHANGED <<fmtVars, envVars, returned, timer, msgType, io, picked, fsVars, stepVars, itemVars, zipVars,
                 completed, callerSaw, unhandled>>

(***************************************************************************)
(* Exporter.res: doExport up to the item loop                              *)
(***************************************************************************)

\* doExport returns normally: the async function's promise resolves.
ResReturn == pc' = "settled" /\ callerSaw' = "ok"

\* An exception escapes doExport: the async function's promise rejects.
ResThrow == pc' = "settled" /\ callerSaw' = "error"

\* Exporter.res:135-141: switch on the pane and on the selected collection.
resGetSelection ==
  /\ impl = "res"
  /\ pc = "pane"
  /\ IF paneAvail /\ collAvail
       THEN pc' = "pick" /\ callerSaw' = callerSaw
       ELSE ResReturn
  /\ UNCHANGED <<fmtVars, envVars, returned, timer, msgType, io, picked, fsVars, stepVars, itemVars, zipVars,
                 completed, responses, unhandled>>

\* resShowFilePicker with the cancelled case falling through to the export.
resShowFilePickerIgnoreCancel ==
  /\ impl = "res"
  /\ pc = "pick"
  /\ io' = io \cup {"prompt"}
  /\ \E out \in {"file", "cancel"} :
       /\ picked' = out
       /\ pc' = "tmp"
       /\ callerSaw' = callerSaw
  /\ UNCHANGED <<fmtVars, envVars, returned, timer, msgType, fsVars, stepVars, itemVars, zipVars,
                 completed, responses, unhandled>>

\* Exporter.res:155-159: UI.showFilePicker and the switch on its result.
resShowFilePicker ==
  /\ impl = "res"
  /\ pc = "pick"
  /\ io' = io \cup {"prompt"}
  /\ \E out \in {"file", "cancel"} :
       /\ picked' = out
       /\ IF out = "file" THEN pc' = "tmp" /\ callerSaw' = callerSaw ELSE ResReturn
  /\ UNCHANGED <<fmtVars, envVars, returned, timer, msgType, fsVars, stepVars, itemVars, zipVars,
                 completed, responses, unhandled>>

\* Exporter.res:4-16 and 161-164: getTmpDir and the switch on its result.
getTmpDir ==
  /\ impl = "res"
  /\ pc = "tmp"
  /\ io' = io \cup {"tmp"}
  /\ \E ok \in BOOLEAN :
       IF ok THEN tempRoot' = TRUE /\ pc' = "bagit" /\ callerSaw' = callerSaw
             ELSE tempRoot' = tempRoot /\ ResReturn
  /\ UNCHANGED <<fmtVars, envVars, returned, timer, msgType, picked, bagit, dataDir, dirs, files, archive,
                 stepVars, itemVars, zipVars, completed, responses, unhandled>>

\* Exporter.res:173-174: bagit.txt is written outside any try.
resWriteBagit ==
  /\ impl = "res"
  /\ pc = "bagit"
  /\ io' = io \cup {"bagit"}
  /\ \E ok \in BOOLEAN :
       IF ok THEN bagit' = BagitContentRes /\ pc' = "data" /\ callerSaw' = callerSaw
             ELSE bagit' = bagit /\ ResThrow
  /\ UNCHANGED <<fmtVars, envVars, returned, timer, msgType, picked, tempRoot, dataDir, dirs, files, archive,
                 stepVars, itemVars, zipVars, completed, responses, unhandled>>

\* resMkdirData with the Error case only logged and the job going on.
resMkdirDataGoOn ==
  /\ impl = "res"
  /\ pc = "data"
  /\ io' = io \cup {"data"}
  /\ \E ok \in BOOLEAN :
       IF ok THEN dataDir' = TRUE /\ pc' = "items" /\ callerSaw' = callerSaw
             ELSE dataDir' = dataDir /\ pc' = "items" /\ callerSaw' = callerSaw
  /\ UNCHANGED <<fmtVars, envVars, returned, timer, msgType, picked, tempRoot, bagit, dirs, files, archive,
                 stepVars, itemVars, zipVars, completed, responses, unhandled>>

\* Exporter.res:177-179: mkdir(outDir, "data") and the switch on its result.
resMkdirData ==
  /\ impl = "res"
  /\ pc = "data"
  /\ io' = io \cup {"data"}
  /\ \E ok \in BOOLEAN :
       IF ok THEN dataDir' = TRUE /\ pc' = "items" /\ callerSaw' = callerSaw
             ELSE dataDir' = dataDir /\ ResReturn
  /\ UNCHANGED <<fmtVars, envVars, returned, timer, msgType, picked, tempRoot, bagit, dirs, files, archive,
                 stepVars, itemVars, zipVars, completed, responses, unhandled>>

(***************************************************************************)
(* ErrorRecovery.res                                                       *)
(***************************************************************************)

\* RetryExhausted with the comparison off by one.
RetryExhaustedOffByOne(a) == a > maxAttempts

\* retryWithBackoff's test in the catch branch (ErrorRecovery.res:37): the
\* attempt that just failed was the last one.
RetryExhausted(a) == a >= maxAttempts

\* delayTime with the exponent taken from the attempt itself.
delayTimeFromAttempt(a) == delayMs * backoffMultiplier ^ a

\* delayTime (ErrorRecovery.res:41-44): delayMs * backoffMultiplier ^
\* (attempt - 1), a whole number for the default configuration.
delayTime(a) == delayMs * backoffMultiplier ^ (a - 1)

\* What retryWithBackoff returns when the operation invoked as attempt a
\* returned value v without throwing (ErrorRecovery.res:29-31): the value is
\* wrapped in Ok whatever it is.
RetryOk(v) == [tag |-> "Ok", val |-> v]

\* What retryWithBackoff returns when the last allowed attempt threw
\* (ErrorRecovery.res:37-38).
RetryError == [tag |-> "Error", val |-> "exn"]

\* ensureDirectory creating unconditionally, as nsIFile.create does: it
\* fails when something is already at the path.
ensureDirectoryCreateOnly(state, createOk) ==
  IF state = "absent" /\ createOk THEN "Ok" ELSE "Error"

\* ensureDirectory (ErrorRecovery.res:102-120). state is what is at the path:
\* "absent", "dir" or "file"; createOk tells whether dir.create succeeds.
\* The Error built in the "exists but is not a directory" branch is not
\* returned: control falls through to Ok().
ensureDirectory(state, createOk) ==
  IF state = "absent"
    THEN (IF createOk THEN "Ok" ELSE "Error")
    ELSE "Ok"

\* mkdir (Exporter.res:19-35): the result of ensureDirectory is passed on.
mkdir(state, createOk) == ensureDirectory(state, createOk)

\* copyFileTo (Exporter.res:45-60): valid is validateFile(sourceFile), copyOk
\* tells whether sourceFile.copyTo succeeds.
copyFileTo(valid, copyOk) ==
  IF ~valid THEN "Invalid"
  ELSE IF copyOk THEN "Ok" ELSE "CopyError"

(***************************************************************************)
(* Exporter.res: processItem and the item loop of doExport                 *)
(***************************************************************************)

\* processItem's switch on the retry result (Exporter.res:118-127).
processItemReturn(result) == result.tag = "Ok"

\* The operation moves on to its next step.
Advance(r, p) ==
  /\ ipc' = [ipc EXCEPT ![r] = p]
  /\ UNCHANGED <<attempt, opRes, ret, idx, successCount, failureCount, timer>>

\* ItemDone with a loop that stops at the first record that did not succeed.
ItemDoneAbortOnFailure(r, result) ==
  LET success == result.tag = "Ok" IN
  /\ ipc' = [ipc EXCEPT ![r] = "done"]
  /\ attempt' = [attempt EXCEPT ![r] = 0]
  /\ opRes' = [opRes EXCEPT ![r] = result]
  /\ ret' = [ret EXCEPT ![r] = IF success THEN "true" ELSE "false"]
  /\ successCount' = IF success THEN successCount + 1 ELSE successCount
  /\ failureCount' = IF success THEN failureCount ELSE failureCount + 1
  /\ idx' = IF success THEN idx + 1 ELSE nItems + 1
  /\ timer' = timer

\* ItemDone with the else branch of the tally missing.
ItemDoneFailuresUncounted(r, result) ==
  LET success == processItemReturn(result) IN
  /\ ipc' = [ipc EXCEPT ![r] = "done"]
  /\ attempt' = [attempt EXCEPT ![r] = 0]
  /\ opRes' = [opRes EXCEPT ![r] = result]
  /\ ret' = [ret EXCEPT ![r] = IF success THEN "true" ELSE "false"]
  /\ successCount' = IF success THEN successCount + 1 ELSE successCount
  /\ failureCount' = failureCount
  /\ idx' = idx + 1
  /\ timer' = timer

\* processItem returns and doExport tallies the record (Exporter.res:116-127
\* and 185-190).
ItemDone(r, result) ==
  LET success == processItemReturn(result) IN
  /\ ipc' = [ipc EXCEPT ![r] = "done"]
  /\ attempt' = [attempt EXCEPT ![r] = 0]
  /\ opRes' = [opRes EXCEPT ![r] = result]
  /\ ret' = [ret EXCEPT ![r] = IF success THEN "true" ELSE "false"]
  /\ successCount' = IF success THEN successCount + 1 ELSE successCount
  /\ failureCount' = IF success THEN failureCount ELSE failureCount + 1
  /\ idx' = idx + 1
  /\ timer' = timer

\* The operation returned the value v (an Ok or an Error result) without
\* throwing.
OperationReturned(r, v) == ItemDone(r, RetryOk(v))

\* The operation threw: retryWithBackoff either gives up or computes the
\* delay and starts its timeout (ErrorRecovery.res:33-47).
OperationThrew(r) ==
  IF RetryExhausted(attempt[r])
    THEN ItemDone(r, RetryError)
    ELSE /\ ipc' = [ipc EXCEPT ![r] = "delay"]
         /\ timer' = delayTime(attempt[r])
         /\ UNCHANGED <<attempt, opRes, ret, idx, successCount, failureCount>>

\* doExport's for loop calls processItem on the next record, which starts
\* the first attempt of the operation (Exporter.res:184-185, 63-66, 116).
processItem ==
  /\ impl = "res"
  /\ pc = "items"
  /\ idx <= nItems
  /\ ipc[idx] = "idle"
  /\ ipc' = [ipc EXCEPT ![idx] = "lookup"]
  /\ calls' = [calls EXCEPT ![idx] = @ + 1]
  /\ attempt' = [attempt EXCEPT ![idx] = 1]
  /\ UNCHANGED <<fmtVars, envVars, returned, timer, msgType, pc, io, picked, fsVars, opRes, ret, idx,
                 successCount, failureCount, resolved, zipVars, outVars>>

\* resLookup with the record directory created before the lookup.
resLookupMkdirFirst(r) ==
  /\ impl = "res"
  /\ pc = "items"
  /\ ipc[r] = "lookup"
  /\ io' = io \cup {"lookup", "item"}
  /\ dirs' = dirs \cup {r}
  /\ \E out \in {"att", "none", "reject"} :
       CASE out = "att" -> Advance(r, "path")
         [] out = "none" -> OperationReturned(r, "NoAttachment")
         [] OTHER -> OperationThrew(r)
  /\ UNCHANGED <<fmtVars, envVars, returned, msgType, pc, picked, tempRoot, bagit, dataDir, files,
                 archive, calls, resolved, zipVars, outVars>>

\* item.getBestAttachment() (Exporter.res:67-73): an attachment, null, or a
\* rejected promise.
resLookup(r) ==
  /\ impl = "res"
  /\ pc = "items"
  /\ ipc[r] = "lookup"
  /\ io' = io \cup {"lookup"}
  /\ \E out \in {"att", "none", "reject"} :
       CASE out = "att" -> Advance(r, "path")
         [] out = "none" -> OperationReturned(r, "NoAttachment")
         [] OTHER -> OperationThrew(r)
  /\ UNCHANGED <<fmtVars, envVars, returned, msgType, pc, picked, fsVars, calls, resolved,
                 zipVars, outVars>>

\* att.getFilePathAsync() (Exporter.res:75-83).
resPath(r) ==
  /\ impl = "res"
  /\ pc = "items"
  /\ ipc[r] = "path"
  /\ \E out \in {"path", "none", "reject"} :
       /\ resolved' = [resolved EXCEPT ![r] = @ \/ (out = "path")]
       /\ CASE out = "path" -> Advance(r, "mkdir")
            [] out = "none" -> OperationReturned(r, "NoPath")
            [] OTHER -> OperationThrew(r)
  /\ UNCHANGED <<fmtVars, envVars, returned, msgType, pc, io, picked, fsVars, calls, zipVars, outVars>>

\* resMkdirItem with the directory never created before the writes.
resMkdirItemDeferred(r) ==
  /\ impl = "res"
  /\ pc = "items"
  /\ ipc[r] = "mkdir"
  /\ io' = io \cup {"item"}
  /\ \E createOk \in BOOLEAN :
       LET res == mkdir(IF r \in dirs THEN "dir" ELSE "absent", createOk) IN
       IF res = "Ok"
         THEN dirs' = dirs /\ Advance(r, "gen")
         ELSE dirs' = dirs /\ OperationReturned(r, "MkdirError")
  /\ UNCHANGED <<fmtVars, envVars, returned, msgType, pc, picked, tempRoot, bagit, dataDir, files,
                 archive, itemVars, zipVars, outVars>>

\* mkdir(dataDir, itemID) (Exporter.res:89-91).
resMkdirItem(r) ==
  /\ impl = "res"
  /\ pc = "items"
  /\ ipc[r] = "mkdir"
  /\ io' = io \cup {"item"}
  /\ \E createOk \in BOOLEAN :
       LET res == mkdir(IF r \in dirs THEN "dir" ELSE "absent", createOk) IN
       IF res = "Ok"
         THEN dirs' = dirs \cup {r} /\ Advance(r, "gen")
         ELSE dirs' = dirs /\ OperationReturned(r, "MkdirError")
  /\ UNCHANGED <<fmtVars, envVars, returned, msgType, pc, picked, tempRoot, bagit, dataDir, files,
                 archive, itemVars, zipVars, outVars>>

\* Format.generateMODS / Format.generateDC (Exporter.res:93-94): an
\* exception from either escapes the operation.
resGenerate(r) ==
  /\ impl = "res"
  /\ pc = "items"
  /\ ipc[r] = "gen"
  /\ \E ok \in BOOLEAN :
       IF ok THEN Advance(r, "wmods") ELSE OperationThrew(r)
  /\ UNCHANGED <<fmtVars, envVars, returned, msgType, pc, io, picked, fsVars, itemVars, zipVars, outVars>>

\* Zotero.File.putContents(modsFile, mods) (Exporter.res:99).
resWriteMods(r) ==
  /\ impl = "res"
  /\ pc = "items"
  /\ ipc[r] = "wmods"
  /\ \E ok \in BOOLEAN :
       IF ok THEN files' = files \cup {<<r, MODS_FILENAME>>} /\ Advance(r, "wdc")
             ELSE files' = files /\ OperationThrew(r)
  /\ UNCHANGED <<fmtVars, envVars, returned, msgType, pc, io, picked, tempRoot, bagit, dataDir, dirs,
                 archive, itemVars, zipVars, outVars>>

\* Zotero.File.putContents(dcFile, dc) (Exporter.res:100).
resWriteDc(r) ==
  /\ impl = "res"
  /\ pc = "items"
  /\ ipc[r] = "wdc"
  /\ \E ok \in BOOLEAN :
       IF ok THEN files' = files \cup {<<r, DC_FILENAME>>} /\ Advance(r, "copy")
             ELSE files' = files /\ OperationThrew(r)
  /\ UNCHANGED <<fmtVars, envVars, returned, msgType, pc, io, picked, tempRoot, bagit, dataDir, dirs,
                 archive, itemVars, zipVars, outVars>>

\* copyFileTo(attFile, itemOutDir, "CWRC.bin") (Exporter.res:103-106).
resCopy(r) ==
  /\ impl = "res"
  /\ pc = "items"
  /\ ipc[r] = "copy"
  /\ \E valid \in BOOLEAN, copyOk \in BOOLEAN :
       LET res == copyFileTo(valid, copyOk) IN
       /\ files' = IF res = "Ok" THEN files \cup {<<r, CWRC_FILENAME>>} ELSE files
       /\ OperationReturned(r, res)
  /\ UNCHANGED <<fmtVars, envVars, returned, msgType, pc, io, picked, tempRoot, bagit, dataDir, dirs,
                 archive, itemVars, zipVars, outVars>>

\* resDelay with the recursive call made with the same attempt number.
resDelaySameAttempt(r) ==
  /\ impl = "res"
  /\ pc = "items"
  /\ ipc[r] = "delay"
  /\ timer' = 0
  /\ attempt' = attempt
  /\ ipc' = [ipc EXCEPT ![r] = "lookup"]
  /\ UNCHANGED <<fmtVars, envVars, returned, msgType, pc, io, picked, fsVars, opRes, ret, idx,
                 successCount, failureCount, itemVars, zipVars, outVars>>

\* The timeout of delay(delayTime) fires, then retryWithBackoff(operation,
\* config, attempt + 1) (ErrorRecovery.res:47-48).
resDelay(r) ==
  /\ impl = "res"
  /\ pc = "items"
  /\ ipc[r] = "delay"
  /\ timer' = 0
  /\ attempt' = [attempt EXCEPT ![r] = @ + 1]
  /\ ipc' = [ipc EXCEPT ![r] = "lookup"]
  /\ UNCHANGED <<fmtVars, envVars, returned, msgType, pc, io, picked, fsVars, opRes, ret, idx,
                 successCount, failureCount, itemVars, zipVars, outVars>>

\* The for loop is exhausted (Exporter.res:184-200): archiving starts.
resLoopExit ==
  /\ impl = "res"
  /\ pc = "items"
  /\ idx > nItems
  /\ pc' = "zip"
  /\ zipAttempt' = 1
  /\ UNCHANGED <<fmtVars, envVars, returned, timer, msgType, io, picked, fsVars, stepVars, itemVars,
                 zipCalls, zipFails, zipResult, outVars>>

\* One invocation of zipOperation under retryWithBackoff and, when the retry
\* ends, the switch on zipResult (Exporter.res:203-219).
resZip ==
  /\ impl = "res"
  /\ pc = "zip"
  /\ io' = io \cup {"zip"}
  /\ zipCalls' = zipCalls + 1
  /\ \E ok \in BOOLEAN :
       IF ok
         THEN /\ archive' = TRUE
              /\ zipResult' = "Ok"
              /\ completed' = TRUE
              /\ zipFails' = zipFails
              /\ zipAttempt' = zipAttempt
              /\ timer' = timer
              /\ ResReturn
         ELSE /\ archive' = archive
              /\ zipFails' = zipFails + 1
              /\ completed' = completed
              /\ IF RetryExhausted(zipAttempt)
                   THEN /\ zipResult' = "Error" /\ zipAttempt' = zipAttempt
                        /\ timer' = timer
                        /\ ResReturn
                   ELSE /\ zipResult' = zipResult
                        /\ timer' = delayTime(zipAttempt)
                        /\ pc' = "zipdelay"
                        /\ zipAttempt' = zipAttempt
                        /\ callerSaw' = callerSaw
  /\ UNCHANGED <<fmtVars, envVars, returned, msgType, picked, tempRoot, bagit, dataDir, dirs, files,
                 stepVars, itemVars, responses, unhandled>>

\* The backoff delay before the next zip attempt (ErrorRecovery.res:47-48).
resZipDelay ==
  /\ impl = "res"
  /\ pc = "zipdelay"
  /\ timer' = 0
  /\ zipAttempt' = zipAttempt + 1
  /\ pc' = "zip"
  /\ UNCHANGED <<fmtVars, envVars, returned, msgType, io, picked, fsVars, stepVars, itemVars,
                 zipCalls, zipFails, zipResult, outVars>>

(***************************************************************************)
(* lib/exporter.js: doExport and itemSaver                                 *)
(***************************************************************************)

\* doExport returns to its caller without an exception.
JsReturn == pc' = "done" /\ callerSaw' = "ok"

\* An exception reaches doExport's outer catch, which logs and rethrows it
\* (exporter.js:268-276).
JsThrow == pc' = "done" /\ callerSaw' = "error"

\* exporter.js:189-209: pane and collection lookup, empty-collection check.
\* getZoteroPane throws when there is no pane (zotero.js:66-70).
jsGetSelection ==
  /\ impl = "js"
  /\ pc = "idle"
  /\ IF ~paneAvail \/ ~collAvail THEN JsThrow
     ELSE IF nItems = 0 THEN JsReturn
     ELSE pc' = "pick" /\ callerSaw' = callerSaw
  /\ UNCHANGED <<fmtVars, envVars, returned, timer, msgType, io, picked, fsVars, stepVars, itemVars, zipVars,
                 completed, responses, unhandled>>

\* exporter.js:214-219 and ui.js:102-141: the picker returns a file, returns
\* null on cancel, or throws.
jsShowFilePicker ==
  /\ impl = "js"
  /\ pc = "pick"
  /\ io' = io \cup {"prompt"}
  /\ \E out \in {"file", "cancel", "throw"} :
       CASE out = "file" -> picked' = "file" /\ pc' = "tmp" /\ callerSaw' = callerSaw
         [] out = "cancel" -> picked' = "cancel" /\ JsReturn
         [] OTHER -> picked' = picked /\ JsThrow
  /\ UNCHANGED <<fmtVars, envVars, returned, timer, msgType, fsVars, stepVars, itemVars, zipVars,
                 completed, responses, unhandled>>

\* mkTmpDir (exporter.js:71-79, 224-229).
mkTmpDir ==
  /\ impl = "js"
  /\ pc = "tmp"
  /\ io' = io \cup {"tmp"}
  /\ \E ok \in BOOLEAN :
       IF ok THEN tempRoot' = TRUE /\ pc' = "bagit" /\ callerSaw' = callerSaw
             ELSE tempRoot' = tempRoot /\ JsThrow
  /\ UNCHANGED <<fmtVars, envVars, returned, timer, msgType, picked, bagit, dataDir, dirs, files, archive,
                 stepVars, itemVars, zipVars, completed, responses, unhandled>>

\* exporter.js:232-239: the BagIt marker file.
jsWriteBagit ==
  /\ impl = "js"
  /\ pc = "bagit"
  /\ io' = io \cup {"bagit"}
  /\ \E ok \in BOOLEAN :
       IF ok THEN bagit' = BagitContentJs /\ pc' = "data" /\ callerSaw' = callerSaw
             ELSE bagit' = bagit /\ JsThrow
  /\ UNCHANGED <<fmtVars, envVars, returned, timer, msgType, picked, tempRoot, dataDir, dirs, files, archive,
                 stepVars, itemVars, zipVars, completed, responses, unhandled>>

\* exporter.js:242-247: mkdir(outDir, DATA_DIR_NAME).
jsMkdirData ==
  /\ impl = "js"
  /\ pc = "data"
  /\ io' = io \cup {"data"}
  /\ \E ok \in BOOLEAN :
       IF ok THEN dataDir' = TRUE /\ pc' = "map" /\ callerSaw' = callerSaw
             ELSE dataDir' = dataDir /\ JsThrow
  /\ UNCHANGED <<fmtVars, envVars, returned, timer, msgType, picked, tempRoot, bagit, dirs, files, archive,
                 stepVars, itemVars, zipVars, completed, responses, unhandled>>

\* exporter.js:251-253 and 100-108: items.map(itemProcessor) calls the
\* processor on every record, each call starting getBestAttachment(); the
\* chain all(...).then(...) is not returned, so doExport returns at once.
jsStartItems ==
  /\ impl = "js"
  /\ pc = "map"
  /\ pc' = "items"
  /\ callerSaw' = "ok"
  /\ io' = io \cup {"lookup"}
  /\ ipc' = [r \in Records |-> IF r <= nItems THEN "lookup" ELSE ipc[r]]
  /\ calls' = [r \in Records |-> IF r <= nItems THEN calls[r] + 1 ELSE calls[r]]
  /\ UNCHANGED <<fmtVars, envVars, returned, timer, msgType, picked, fsVars, attempt, opRes, ret, idx,
                 successCount, failureCount, resolved, zipVars, completed,
                 responses, unhandled>>

\* A synchronous block of some record's chain is running: no other callback
\* can run until it ends.
InSync(r) == ipc[r] \in {"validate", "mkdir", "gen", "wmods", "wdc", "copy"}

NoneInSync == \A r \in Records : ~InSync(r)

\* The record's chain moves on.
JsAdvance(r, p) ==
  /\ ipc' = [ipc EXCEPT ![r] = p]
  /\ UNCHANGED <<attempt, opRes, ret, idx, successCount, failureCount>>

\* The record's chain settles: every path of itemSaver ends in a promise
\* resolved with null / undefined (exporter.js:112, 119, 127, 168, 174).
JsItemDone(r, v) ==
  /\ ipc' = [ipc EXCEPT ![r] = "done"]
  /\ opRes' = [opRes EXCEPT ![r] = [tag |-> "null", val |-> v]]
  /\ ret' = [ret EXCEPT ![r] = "null"]
  /\ UNCHANGED <<attempt, idx, successCount, failureCount>>

\* getBestAttachment() settles (exporter.js:108-115, 171-175).
jsLookup(r) ==
  /\ impl = "js"
  /\ pc = "items"
  /\ ipc[r] = "lookup"
  /\ NoneInSync
  /\ \E out \in {"att", "none", "reject"} :
       CASE out = "att" -> JsAdvance(r, "path")
         [] out = "none" -> JsItemDone(r, "NoAttachment")
         [] OTHER -> JsItemDone(r, "Rejected")
  /\ UNCHANGED <<fmtVars, envVars, returned, timer, msgType, pc, io, picked, fsVars, itemVars, zipVars, outVars>>

\* getFilePathAsync() settles (exporter.js:114-120, 171-175).
jsPath(r) ==
  /\ impl = "js"
  /\ pc = "items"
  /\ ipc[r] = "path"
  /\ NoneInSync
  /\ \E out \in {"path", "none", "reject"} :
       /\ resolved' = [resolved EXCEPT ![r] = @ \/ (out = "path")]
       /\ CASE out = "path" -> JsAdvance(r, "validate")
            [] out = "none" -> JsItemDone(r, "NoPath")
            [] OTHER -> JsItemDone(r, "Rejected")
  /\ UNCHANGED <<fmtVars, envVars, returned, timer, msgType, pc, io, picked, fsVars, calls, zipVars, outVars>>

\* exporter.js:123-128: the attachment file must exist.
jsValidate(r) ==
  /\ impl = "js"
  /\ pc = "items"
  /\ ipc[r] = "validate"
  /\ \E exists \in BOOLEAN :
       IF exists THEN JsAdvance(r, "mkdir") ELSE JsItemDone(r, "Invalid")
  /\ UNCHANGED <<fmtVars, envVars, returned, timer, msgType, pc, io, picked, fsVars, itemVars, zipVars, outVars>>

\* jsMkdirItem with one directory name used for every record.
jsMkdirItemSharedDir(r) ==
  /\ impl = "js"
  /\ pc = "items"
  /\ ipc[r] = "mkdir"
  /\ io' = io \cup {"item"}
  /\ \E ok \in BOOLEAN :
       IF ok /\ r \notin dirs
         THEN dirs' = dirs \cup {1} /\ JsAdvance(r, "gen")
         ELSE dirs' = dirs /\ JsItemDone(r, "MkdirError")
  /\ UNCHANGED <<fmtVars, envVars, returned, timer, msgType, pc, picked, tempRoot, bagit, dataDir, files,
                 archive, itemVars, zipVars, outVars>>

\* exporter.js:133 and 26-42: mkdir(dataDir, itemID.toString()).
jsMkdirItem(r) ==
  /\ impl = "js"
  /\ pc = "items"
  /\ ipc[r] = "mkdir"
  /\ io' = io \cup {"item"}
  /\ \E ok \in BOOLEAN :
       IF ok /\ r \notin dirs
         THEN dirs' = dirs \cup {r} /\ JsAdvance(r, "gen")
         ELSE dirs' = dirs /\ JsItemDone(r, "MkdirError")
  /\ UNCHANGED <<fmtVars, envVars, returned, timer, msgType, pc, picked, tempRoot, bagit, dataDir, files,
                 archive, itemVars, zipVars, outVars>>

\* exporter.js:136-143: format.generateMODS / format.generateDC.
jsGenerate(r) ==
  /\ impl = "js"
  /\ pc = "items"
  /\ ipc[r] = "gen"
  /\ \E ok \in BOOLEAN :
       IF ok THEN JsAdvance(r, "wmods") ELSE JsItemDone(r, "GenError")
  /\ UNCHANGED <<fmtVars, envVars, returned, timer, msgType, pc, io, picked, fsVars, itemVars, zipVars, outVars>>

\* exporter.js:150: putContents(modsFile, mods).
jsWriteMods(r) ==
  /\ impl = "js"
  /\ pc = "items"
  /\ ipc[r] = "wmods"
  /\ \E ok \in BOOLEAN :
       IF ok THEN files' = files \cup {<<r, MODS_FILENAME>>} /\ JsAdvance(r, "wdc")
             ELSE files' = files /\ JsItemDone(r, "WriteError")
  /\ UNCHANGED <<fmtVars, envVars, returned, timer, msgType, pc, io, picked, tempRoot, bagit, dataDir, dirs,
                 archive, itemVars, zipVars, outVars>>

\* exporter.js:151: putContents(dcFile, dc).
jsWriteDc(r) ==
  /\ impl = "js"
  /\ pc = "items"
  /\ ipc[r] = "wdc"
  /\ \E ok \in BOOLEAN :
       IF ok THEN files' = files \cup {<<r, DC_FILENAME>>} /\ JsAdvance(r, "copy")
             ELSE files' = files /\ JsItemDone(r, "WriteError")
  /\ UNCHANGED <<fmtVars, envVars, returned, timer, msgType, pc, io, picked, tempRoot, bagit, dataDir, dirs,
                 archive, itemVars, zipVars, outVars>>

\* exporter.js:158-164: attFile.copyTo(itemOutDir, CWRC_FILENAME).
jsCopy(r) ==
  /\ impl = "js"
  /\ pc = "items"
  /\ ipc[r] = "copy"
  /\ \E ok \in BOOLEAN :
       IF ok THEN files' = files \cup {<<r, CWRC_FILENAME>>} /\ JsItemDone(r, "Ok")
             ELSE files' = files /\ JsItemDone(r, "CopyError")
  /\ UNCHANGED <<fmtVars, envVars, returned, timer, msgType, pc, io, picked, tempRoot, bagit, dataDir, dirs,
                 archive, itemVars, zipVars, outVars>>

\* The zip step chained without waiting for all(...): it runs as soon as no
\* callback is running.
jsZipWithoutJoin ==
  /\ impl = "js"
  /\ pc = "items"
  /\ NoneInSync
  /\ io' = io \cup {"zip"}
  /\ zipCalls' = zipCalls + 1
  /\ pc' = "done"
  /\ \E ok \in BOOLEAN :
       IF ok
         THEN /\ archive' = TRUE
              /\ zipResult' = "Ok"
              /\ zipFails' = zipFails
              /\ completed' = TRUE
              /\ unhandled' = unhandled
         ELSE /\ archive' = archive
              /\ zipResult' = "Error"
              /\ zipFails' = zipFails + 1
              /\ completed' = completed
              /\ unhandled' = TRUE
  /\ UNCHANGED <<fmtVars, envVars, returned, timer, msgType, picked, tempRoot, bagit, dataDir, dirs, files,
                 stepVars, itemVars, zipAttempt, callerSaw, responses>>

\* exporter.js:253-266: once all(...) resolves the directory is zipped, once;
\* a rejection is logged and rethrown inside the catch callback, where
\* nothing handles it.
jsZip ==
  /\ impl = "js"
  /\ pc = "items"
  /\ \A r \in Records : r <= nItems => ipc[r] = "done"
  /\ io' = io \cup {"zip"}
  /\ zipCalls' = zipCalls + 1
  /\ pc' = "done"
  /\ \E ok \in BOOLEAN :
       IF ok
         THEN /\ archive' = TRUE
              /\ zipResult' = "Ok"
              /\ zipFails' = zipFails
              /\ completed' = TRUE
              /\ unhandled' = unhandled
         ELSE /\ archive' = archive
              /\ zipResult' = "Error"
              /\ zipFails' = zipFails + 1
              /\ completed' = completed
              /\ unhandled' = TRUE
  /\ UNCHANGED <<fmtVars, envVars, returned, timer, msgType, picked, tempRoot, bagit, dataDir, dirs, files,
                 stepVars, itemVars, zipAttempt, callerSaw, responses>>

(***************************************************************************)
(* Format.res and lib/format.js: escaping                                  *)
(***************************************************************************)

\* The named entity of each special character.
Entity(c) ==
  CASE c = "<" -> <<"&", "l", "t", ";">>
    [] c = ">" -> <<"&", "g", "t", ";">>
    [] c = "&" -> <<"&", "a", "m", "p", ";">>
    [] c = "\"" -> <<"&", "q", "u", "o", "t", ";">>
    [] c = "'" -> <<"&", "a", "p", "o", "s", ";">>

\* String.replaceAll(text, c, rep) for a one-character pattern c.
RECURSIVE replaceAll(_, _, _)
replaceAll(t, c, rep) ==
  IF t = <<>> THEN <<>>
  ELSE (IF Head(t) = c THEN rep ELSE <<Head(t)>>) \o replaceAll(Tail(t), c, rep)

\* An escaper that leaves "<" alone.
escapeXmlKeepLt(t) ==
  replaceAll(replaceAll(replaceAll(replaceAll(t,
    ">", Entity(">")), "&", Entity("&")), "\"", Entity("\"")), "'", Entity("'"))

\* escapeXml (Format.res:58-65): five replaceAll passes in this order, so
\* the "&" pass runs over the output of the "<" and ">" passes.
escapeXml(t) ==
  replaceAll(
    replaceAll(
      replaceAll(
        replaceAll(
          replaceAll(t, "<", Entity("<")),
          ">", Entity(">")),
        "&", Entity("&")),
      "\"", Entity("\"")),
    "'", Entity("'"))

\* The sanitizing replace of mapProperty (format.js:52-56): one pass over
\* the text that maps "<", ">" and "&" and leaves every other character.
RECURSIVE sanitize(_)
sanitize(t) ==
  IF t = <<>> THEN <<>>
  ELSE (IF Head(t) \in {"<", ">", "&"} THEN Entity(Head(t)) ELSE <<Head(t)>>)
       \o sanitize(Tail(t))

\* What XMLSerializer.serializeToString writes for a text node created with
\* createTextNode(t) (Format.res:301-304, 316-320; format.js:58, 159): the
\* markup characters "&", "<" and ">" of character data are written as
\* entities, in one pass.
RECURSIVE serializeText(_)
serializeText(t) ==
  IF t = <<>> THEN <<>>
  ELSE (IF Head(t) \in {"<", ">", "&"} THEN Entity(Head(t)) ELSE <<Head(t)>>)
       \o serializeText(Tail(t))

\* The escaper of Format.res is applied to the input text.
applyEscapeXml ==
  /\ fpc = "input"
  /\ fItem = NullItem
  /\ fpc' = "done"
  /\ fOut' = [NoOut EXCEPT !.fn = "escapeXml", !.status = "Ok", !.text = escapeXml(fText)]
  /\ UNCHANGED <<jobVars, fText, fItem, fDir>>

\* The sanitizing replace of the legacy mapProperty is applied to the input
\* text.
applySanitize ==
  /\ fpc = "input"
  /\ fItem = NullItem
  /\ fpc' = "done"
  /\ fOut' = [NoOut EXCEPT !.fn = "sanitize", !.status = "Ok", !.text = sanitize(fText)]
  /\ UNCHANGED <<jobVars, fText, fItem, fDir>>

(***************************************************************************)
(* Format.res and lib/format.js: the generators                            *)
(*                                                                         *)
(* A document is the sequence of its top-level nodes: the XML declaration  *)
(* when there is one, then the root element with its children.             *)
(***************************************************************************)

Leaf(el, attrs, text) == Node(el, attrs, text, <<>>)

Opt(cond, node) == IF cond THEN <<node>> ELSE <<>>

RECURSIVE Concat(_)
Concat(ss) == IF ss = <<>> THEN <<>> ELSE Head(ss) \o Concat(Tail(ss))

\* xmlDeclaration (Format.res:32), XML_DECLARATION (format.js:7).
xmlDeclaration == Leaf("?xml", {"version=1.0", "encoding=UTF-8"}, <<>>)

\* Attributes of modsRootElement (Format.res:36, 348; format.js:11).
modsRootAttrs == {"xmlns", "xmlns:mods", "xmlns:xsi", "xmlns:xlink", "xsi:schemaLocation"}

\* Attributes of dcRootElement (Format.res:40, 381; format.js:14).
dcRootAttrs == {"xmlns:oai_dc", "xmlns:dc", "xmlns:xsi", "xsi:schemaLocation"}

\* itemTypeMap (Format.res:43-52), ITEM_TYPE_MAP (format.js:18-27).
itemTypeMap ==
  [book |-> "Text", journalArticle |-> "Text", conferencePaper |-> "Text",
   thesis |-> "Text", webpage |-> "InteractiveResource", film |-> "MovingImage",
   audioRecording |-> "Sound", artwork |-> "Image"]

\* itemTypeMap[itemType] || 'Text' (Format.res:219, format.js:223); an item
\* type is a one-word text.
dcTypeOf(itemType) ==
  IF Len(itemType) = 1 /\ itemType[1] \in DOMAIN itemTypeMap
    THEN <<itemTypeMap[itemType[1]]>>
    ELSE <<"Text">>

\* creatorToFullName (Format.res:70-75, 365-368).
creatorToFullName(creator) ==
  IF creator.firstName # None
    THEN creator.firstName[1] \o <<" ">> \o creator.lastName
    ELSE creator.lastName

OkDoc(fn, doc) == [NoOut EXCEPT !.fn = fn, !.status = "Ok", !.doc = doc]

Failure(fn, status, msg) == [NoOut EXCEPT !.fn = fn, !.status = status, !.msg = msg]

\* generateMODSJs (Format.res:114-173): the document is built as lines of
\* text, every value going through escapeXml.
generateMODSJs(item) ==
  LET nameOf(creator) ==
        Node("name", {"type=personal"}, <<>>,
             <<Leaf("namePart", {}, escapeXml(creatorToFullName(creator)))>>
             \o Opt(creator.creatorType # <<>>,
                    Node("role", {}, <<>>,
                         <<Leaf("roleTerm", {"type=text"}, escapeXml(creator.creatorType))>>)))
      kids ==
        Opt(item.title # <<>>,
            Node("titleInfo", {}, <<>>, <<Leaf("title", {}, escapeXml(item.title))>>))
        \o [i \in 1..Len(item.creators) |-> nameOf(item.creators[i])]
        \o Opt(item.date # None,
               Node("originInfo", {}, <<>>,
                    <<Leaf("dateIssued", {}, escapeXml(item.date[1]))>>))
        \o Opt(item.abstractNote # None, Leaf("abstract", {}, escapeXml(item.abstractNote[1])))
        \o Opt(item.itemType # None, Leaf("typeOfResource", {}, escapeXml(item.itemType[1])))
  IN OkDoc("generateMODSJs", <<xmlDeclaration, Node("mods", {"xmlns"}, <<>>, kids)>>)

\* generateDC (Format.res:178-257): built as lines of text, starting with
\* the opened root element.
generateDC(item) ==
  LET creatorOf(creator) ==
        Leaf(IF creator.creatorType \in {<<"author">>, <<"creator">>}
               THEN "dc:creator" ELSE "dc:contributor",
             {}, escapeXml(creatorToFullName(creator)))
      kids ==
        <<Leaf("dc:identifier", {}, escapeXml(item.libraryKey))>>
        \o Opt(item.title # <<>>, Leaf("dc:title", {}, escapeXml(item.title)))
        \o [i \in 1..Len(item.creators) |-> creatorOf(item.creators[i])]
        \o Opt(item.date # None, Leaf("dc:date", {}, escapeXml(item.date[1])))
        \o Opt(item.abstractNote # None,
               Leaf("dc:description", {}, escapeXml(item.abstractNote[1])))
        \o Opt(item.itemType # None,
               Leaf("dc:type", {}, escapeXml(dcTypeOf(item.itemType[1]))))
        \o Opt(item.publisher # None, Leaf("dc:publisher", {}, escapeXml(item.publisher[1])))
        \o Opt(item.language # None, Leaf("dc:language", {}, escapeXml(item.language[1])))
        \o (IF item.tags # None
              THEN [i \in 1..Len(item.tags[1]) |->
                      Leaf("dc:subject", {}, escapeXml(item.tags[1][i]))]
              ELSE <<>>)
        \o Opt(item.rights # None, Leaf("dc:rights", {}, escapeXml(item.rights[1])))
  IN OkDoc("generateDC", <<Node("oai_dc:dc", dcRootAttrs, <<>>, kids)>>)

\* mapProperty (Format.res:328-344): a text node under a new element.
mapPropertyDom(elementName, value) == Leaf(elementName, {}, serializeText(value))

\* generateMODS (Format.res:347-377), the generator processItem calls: a DOM
\* document with the title and one name element per creator.
generateMODS(item) ==
  LET nameOf(creator) ==
        Node("name", {"type=personal"}, <<>>,
             <<mapPropertyDom("namePart", creatorToFullName(creator))>>)
      kids ==
        Opt(item.title # <<>>,
            Node("titleInfo", {}, <<>>, <<mapPropertyDom("title", item.title)>>))
        \o [i \in 1..Len(item.creators) |-> nameOf(item.creators[i])]
  IN OkDoc("generateMODS", <<xmlDeclaration, Node("mods", modsRootAttrs, <<>>, kids)>>)

\* generateDC (Format.res:380-389), the generator processItem calls: a DOM
\* document with the identifier only.
generateDCDom(item) ==
  OkDoc("generateDCDom",
        <<xmlDeclaration,
          Node("oai_dc:dc", dcRootAttrs, <<>>,
               <<mapPropertyDom("dc:identifier", item.libraryKey)>>)>>)

\* JavaScript truthiness of an optional text: present and not empty.
Truthy(opt) == opt # None /\ opt[1] # <<>>

\* mapProperty (format.js:40-61): nothing for an empty property, otherwise
\* an element whose text node holds the sanitized property.
mapProperty(elementName, property) ==
  Opt(property # <<>>, Leaf(elementName, {}, serializeText(sanitize(property))))

\* The full name computed at format.js:87-89 and 199-201.
legacyFullName(creator) ==
  IF Truthy(creator.firstName)
    THEN creator.firstName[1] \o <<" ">> \o creator.lastName
    ELSE creator.lastName

\* addNameFromCreator (format.js:86-106).
addNameFromCreator(creator) ==
  Node("name", {"type=personal"}, <<>>,
       mapProperty("namePart", legacyFullName(creator))
       \o Opt(creator.creatorType # <<>>,
              Node("role", {}, <<>>,
                   <<Leaf("roleTerm", {"type=text"}, serializeText(creator.creatorType))>>)))

\* generateMODS (format.js:115-163).
legacyGenerateMODS(item) ==
  IF item.isNull
    THEN Failure("legacyGenerateMODS", "Throw", "Cannot generate MODS: item is null or undefined")
    ELSE
      LET kids ==
            Opt(item.title # <<>>,
                Node("titleInfo", {}, <<>>, mapProperty("title", item.title)))
            \o [i \in 1..Len(item.creators) |-> addNameFromCreator(item.creators[i])]
            \o Opt(Truthy(item.date),
                   Node("originInfo", {}, <<>>, mapProperty("dateIssued", item.date[1])))
            \o (IF Truthy(item.abstractNote)
                  THEN mapProperty("abstract", item.abstractNote[1]) ELSE <<>>)
            \o Opt(Truthy(item.itemType),
                   Leaf("typeOfResource", {}, serializeText(item.itemType[1])))
      IN OkDoc("legacyGenerateMODS",
               <<xmlDeclaration, Node("mods", modsRootAttrs, <<>>, kids)>>)

\* generateDC (format.js:172-258): the template is parsed without the XML
\* declaration.
legacyGenerateDC(item) ==
  IF item.isNull
    THEN Failure("legacyGenerateDC", "Throw",
                 "Cannot generate Dublin Core: item is null or undefined")
    ELSE
      LET creatorOf(creator) ==
            mapProperty(IF creator.creatorType \in {<<"author">>, <<"creator">>}
                          THEN "dc:creator" ELSE "dc:contributor",
                        legacyFullName(creator))
          optional(name, opt) == IF Truthy(opt) THEN mapProperty(name, opt[1]) ELSE <<>>
          kids ==
            mapProperty("dc:identifier", item.libraryKey)
            \o (IF item.title # <<>> THEN mapProperty("dc:title", item.title) ELSE <<>>)
            \o Concat([i \in 1..Len(item.creators) |-> creatorOf(item.creators[i])])
            \o optional("dc:date", item.date)
            \o optional("dc:description", item.abstractNote)
            \o (IF Truthy(item.itemType)
                  THEN mapProperty("dc:type", dcTypeOf(item.itemType[1])) ELSE <<>>)
            \o optional("dc:publisher", item.publisher)
            \o optional("dc:language", item.language)
            \o (IF item.tags # None
                  THEN Concat([i \in 1..Len(item.tags[1]) |->
                                 mapProperty("dc:subject", item.tags[1][i])])
                  ELSE <<>>)
            \o optional("dc:rights", item.rights)
      IN OkDoc("legacyGenerateDC", <<Node("oai_dc:dc", dcRootAttrs, <<>>, kids)>>)

\* Records handed to the generators: a base record varied in its creators,
\* in its title and optional fields, or in its tags.
Markup == <<"<", "b", ">">>

NamePool == {<<>>, <<"M">>, Markup}

RolePool == {<<>>, <<"author">>, <<"creator">>, <<"editor">>, Markup}

CreatorPool ==
  [firstName : {None, Some(<<"L">>)}, lastName : NamePool, creatorType : RolePool]

RECURSIVE SeqsUpTo(_, _)
SeqsUpTo(S, n) ==
  IF n = 0 THEN {<<>>}
  ELSE LET shorter == SeqsUpTo(S, n - 1) IN
       shorter \cup {Append(q, x) : q \in {u \in shorter : Len(u) = n - 1}, x \in S}

OptPool == {None, Some(Markup)}

ItemTypePool ==
  {None, Some(Markup), Some(<<"map">>)} \cup {Some(<<k>>) : k \in DOMAIN itemTypeMap}

TagPool == {<<>>, <<"t">>, <<"u">>, Markup}

BaseItem ==
  [isNull |-> FALSE, libraryKey |-> <<"K">>, title |-> <<"a">>, creators |-> <<>>,
   date |-> None, abstractNote |-> None, itemType |-> None, publisher |-> None,
   language |-> None, rights |-> None, tags |-> None]

Items ==
  {[BaseItem EXCEPT !.creators = cs] : cs \in SeqsUpTo(CreatorPool, MaxCreators)}
  \cup {[BaseItem EXCEPT !.title = t, !.libraryKey = k, !.itemType = ty, !.date = o.d,
                         !.abstractNote = o.a, !.publisher = o.p, !.language = o.l,
                         !.rights = o.r] :
          t \in {<<>>, <<"a">>, Markup}, k \in {<<"K">>, Markup}, ty \in ItemTypePool,
          o \in [d : OptPool, a : OptPool, p : OptPool, l : OptPool, r : OptPool]}
  \cup {[BaseItem EXCEPT !.tags = Some(ts)] : ts \in SeqsUpTo(TagPool, MaxTags)}

\* One generator is applied to the input record.
applyGenerateMODSJs ==
  /\ fpc = "input" /\ ~fItem.isNull
  /\ fpc' = "done"
  /\ fOut' = generateMODSJs(fItem)
  /\ UNCHANGED <<jobVars, fText, fItem, fDir>>

applyGenerateDC ==
  /\ fpc = "input" /\ ~fItem.isNull
  /\ fpc' = "done"
  /\ fOut' = generateDC(fItem)
  /\ UNCHANGED <<jobVars, fText, fItem, fDir>>

applyGenerateMODS ==
  /\ fpc = "input" /\ ~fItem.isNull
  /\ fpc' = "done"
  /\ fOut' = generateMODS(fItem)
  /\ UNCHANGED <<jobVars, fText, fItem, fDir>>

applyGenerateDCDom ==
  /\ fpc = "input" /\ ~fItem.isNull
  /\ fpc' = "done"
  /\ fOut' = generateDCDom(fItem)
  /\ UNCHANGED <<jobVars, fText, fItem, fDir>>

\* generateMODS without its guard: the first use of a null item throws inside
\* the try block and is rethrown as a generation failure.
applyLegacyGenerateMODSUnguarded ==
  /\ fpc = "input" /\ fText = <<>>
  /\ fpc' = "done"
  /\ fOut' = IF fItem.isNull
              THEN Failure("legacyGenerateMODS", "Throw",
                           "MODS generation failed: item is null")
              ELSE legacyGenerateMODS(fItem)
  /\ UNCHANGED <<jobVars, fText, fItem, fDir>>

\* The legacy generators are plain JavaScript and can be handed null.
applyLegacyGenerateMODS ==
  /\ fpc = "input" /\ fText = <<>>
  /\ fpc' = "done"
  /\ fOut' = legacyGenerateMODS(fItem)
  /\ UNCHANGED <<jobVars, fText, fItem, fDir>>

applyLegacyGenerateDC ==
  /\ fpc = "input" /\ fText = <<>>
  /\ fpc' = "done"
  /\ fOut' = legacyGenerateDC(fItem)
  /\ UNCHANGED <<jobVars, fText, fItem, fDir>>

Next ==
  \/ handleMessage
  \/ exportSettled
  \/ resGetSelection
  \/ resShowFilePicker
  \/ getTmpDir
  \/ resWriteBagit
  \/ resMkdirData
  \/ processItem
  \/ \E r \in Records : resLookup(r)
  \/ \E r \in Records : resPath(r)
  \/ \E r \in Records : resMkdirItem(r)
  \/ \E r \in Records : resGenerate(r)
  \/ \E r \in Records : resWriteMods(r)
  \/ \E r \in Records : resWriteDc(r)
  \/ \E r \in Records : resCopy(r)
  \/ \E r \in Records : resDelay(r)
  \/ resLoopExit
  \/ resZip
  \/ resZipDelay
  \/ jsGetSelection
  \/ jsShowFilePicker
  \/ mkTmpDir
  \/ jsWriteBagit
  \/ jsMkdirData
  \/ jsStartItems
  \/ \E r \in Records : jsLookup(r)
  \/ \E r \in Records : jsPath(r)
  \/ \E r \in Records : jsValidate(r)
  \/ \E r \in Records : jsMkdirItem(r)
  \/ \E r \in Records : jsGenerate(r)
  \/ \E r \in Records : jsWriteMods(r)
  \/ \E r \in Records : jsWriteDc(r)
  \/ \E r \in Records : jsCopy(r)
  \/ jsZip

Spec == Init /\ [][Next]_vars

\* The export job when every call to a collaborator returns: a step that
\* can be taken is eventually taken.
LiveSpec == Init /\ [][Next]_vars /\ WF_vars(Next)

(***************************************************************************)
(* The escaper and the metadata generators as functions of their input     *)
(***************************************************************************)

\* mkdir of lib/exporter.js (exporter.js:26-42): nsIFile.create throws when
\* something is already at the path, and mkdir rethrows.
legacyMkdir(state, createOk) ==
  IF state = "absent" /\ createOk THEN "Ok" ELSE "Throw"

\* What can be at the path handed to the directory helpers, and whether
\* nsIFile.create succeeds there.
DirInputs == [state : {"absent", "dir", "file"}, createOk : BOOLEAN]

applyEnsureDirectory ==
  /\ fpc = "path"
  /\ fpc' = "done"
  /\ fOut' = [NoOut EXCEPT !.fn = "ensureDirectory",
                           !.status = ensureDirectory(fDir.state, fDir.createOk)]
  /\ UNCHANGED <<jobVars, fText, fItem, fDir>>

applyMkdir ==
  /\ fpc = "path"
  /\ fpc' = "done"
  /\ fOut' = [NoOut EXCEPT !.fn = "mkdir", !.status = mkdir(fDir.state, fDir.createOk)]
  /\ UNCHANGED <<jobVars, fText, fItem, fDir>>

applyLegacyMkdir ==
  /\ fpc = "path"
  /\ fpc' = "done"
  /\ fOut' = [NoOut EXCEPT !.fn = "legacyMkdir",
                           !.status = legacyMkdir(fDir.state, fDir.createOk)]
  /\ UNCHANGED <<jobVars, fText, fItem, fDir>>

\* A text for the escaper, a record for the generators or a path for the
\* directory helpers is drawn; the export job stays idle.
FormatInit ==
  /\ JobInit
  /\ impl = "res" /\ nItems = 0 /\ paneAvail /\ collAvail
  /\ fOut = NoOut
  /\ \/ fpc = "input" /\ fText \in Texts /\ fItem = NullItem /\ fDir = NoDir
     \/ fpc = "input" /\ fText = <<>> /\ fItem \in Items /\ fDir = NoDir
     \/ fpc = "path" /\ fText = <<>> /\ fItem = NullItem /\ fDir \in DirInputs

FormatNext ==
  \/ applyEscapeXml
  \/ applySanitize
  \/ applyGenerateMODSJs
  \/ applyGenerateDC
  \/ applyGenerateMODS
  \/ applyGenerateDCDom
  \/ applyLegacyGenerateMODS
  \/ applyLegacyGenerateDC
  \/ applyEnsureDirectory
  \/ applyMkdir
  \/ applyLegacyMkdir

FormatSpec == FormatInit /\ [][FormatNext]_vars

(***************************************************************************)
(* Vocabulary of the properties                                            *)
(***************************************************************************)

Collection == 1..nItems

Done(r) == ipc[r] = "done"

\* Terminal outcome of a record: Saved when the attachment copy succeeded,
\* Skipped for data absence (no attachment, no path, attachment not valid),
\* Failed for everything else.
Saved(r) == Done(r) /\ opRes[r].val = "Ok"
Skipped(r) == Done(r) /\ opRes[r].val \in {"NoAttachment", "NoPath", "Invalid"}
Failed(r) == Done(r) /\ ~Saved(r) /\ ~Skipped(r)

FilesOf(r) == {f \in ItemFiles : <<r, f>> \in files}

\* The job has gone past the item phase.
PastItems == dataDir /\ pc \notin {"map", "items"}

\* The archiver has been invoked.
Archiving == zipCalls > 0

(***************************************************************************)
(* Properties                                                              *)
(***************************************************************************)

\* C1: per-record fault isolation. The item processor runs at most once on a
\* record; whatever the outcomes of the records, the item phase can always
\* take a step and, once it is over, every record of the collection has been
\* processed exactly once and has an outcome; no error of a record reaches
\* the caller of doExport (an error seen by the caller predates the payload
\* directory, an unhandled rejection comes from the archiver).
C1_FaultIsolation ==
  /\ \A r \in Records : calls[r] <= 1
  /\ \A r \in Records : r > nItems => calls[r] = 0
  /\ pc = "items" => ENABLED Next
  /\ PastItems => \A r \in Collection : calls[r] = 1 /\ Done(r)
  /\ dataDir => callerSaw # "error"
  /\ unhandled => zipResult = "Error"

\* C1 witness: the first record failed after its retries were used up, the
\* second was skipped, the third was saved, and archiving has begun.
C1_Witness ==
  /\ impl = "res"
  /\ nItems = 3
  /\ opRes[1] = RetryError
  /\ Skipped(2)
  /\ Saved(3)
  /\ Archiving

\* C2: a record that ends Skipped is not tallied as a success: when the item
\* loop is over, successCount is the number of records that reached Saved
\* and the item processor reported no Skipped record as a success.
C2_SkippedNotSuccess ==
  (impl = "res" /\ idx > nItems) =>
    /\ successCount = Cardinality({r \in Collection : Saved(r)})
    /\ \A r \in Collection : Skipped(r) => ret[r] # "true"

\* C3: a record whose directory creation or attachment copy failed is
\* reported by processItem as a failure and counted in failureCount.
C3_IoFailureIsFailed ==
  \A r \in Records :
    (impl = "res" /\ Done(r) /\ opRes[r].val \in {"MkdirError", "CopyError"}) =>
      /\ ret[r] = "false"
      /\ failureCount >= 1

\* C4: payload invariant at archiving time: every directory under data/
\* belongs to a Saved record and holds exactly MODS.bin, DC.xml and
\* CWRC.bin; a Skipped or Failed record has no directory.
C4_PayloadInvariant ==
  Archiving =>
    \A r \in Records :
      /\ r \in dirs => Saved(r) /\ FilesOf(r) = ItemFiles
      /\ (Skipped(r) \/ Failed(r)) => r \notin dirs /\ FilesOf(r) = {}

\* C5: a record for which no attempt obtained a local file path (no
\* attachment, or an attachment without path, on every attempt) has no
\* directory and no file under the payload root.
C5_NoAttachmentNoDirectory ==
  \A r \in Records : ~resolved[r] => r \notin dirs /\ FilesOf(r) = {}

\* C5 witness: a record ended without attachment or without path, while
\* another record of the same job got its directory.
C5_Witness ==
  \E r, q \in Records :
    /\ Done(r)
    /\ ~resolved[r]
    /\ opRes[r].val \in {"NoAttachment", "NoPath"}
    /\ q \in dirs

\* C6: bounded retry of the archiver (retry started at attempt 1). A success
\* comes after k failures and exactly k + 1 invocations with k < maxAttempts;
\* the final error comes after exactly maxAttempts invocations, all failed;
\* while the retry runs every invocation so far has failed and the next one
\* is numbered zipCalls + 1. The counts are frozen once there is a result,
\* so the operation is not invoked again.
C6_BoundedRetry ==
  impl = "res" =>
    /\ zipCalls <= maxAttempts
    /\ zipResult = "Ok" => zipCalls = zipFails + 1 /\ zipFails < maxAttempts
    /\ zipResult = "Error" => zipCalls = maxAttempts /\ zipFails = maxAttempts
    /\ (zipResult = "none" /\ pc \in {"zip", "zipdelay"}) =>
         /\ zipCalls = zipFails
         /\ zipAttempt = IF pc = "zip" THEN zipCalls + 1 ELSE zipCalls
    /\ \A r \in Records : attempt[r] <= maxAttempts

\* C6 witness: the archiver failed maxAttempts - 1 times and then succeeded,
\* and the job has ended.
C6_Witness ==
  /\ impl = "res"
  /\ zipResult = "Ok"
  /\ zipFails = maxAttempts - 1
  /\ pc = "done"

\* C7: when the archiver has failed for good, the caller of doExport is told
\* of the failure (and never of a success) and completion is not reported.
C7_ArchiveFailureReported ==
  (zipResult = "Error" /\ pc = "done") =>
    /\ callerSaw = "error"
    /\ ~completed
    /\ \A k \in 1..Len(responses) : responses[k] # "success"

\* C8: without a pane or a selected collection doExport ends as a failure
\* reported to its caller, and no I/O of any kind has happened.
C8_NoSelectionFatal ==
  ((~paneAvail \/ ~collAvail) /\ callerSaw # "none") =>
    /\ callerSaw = "error"
    /\ io = {}
    /\ ~tempRoot /\ bagit = "absent" /\ ~dataDir /\ dirs = {} /\ files = {}
    /\ zipCalls = 0
    /\ \A k \in 1..Len(responses) : responses[k] # "success"

\* C9: with an empty collection doExport stops without error before the
\* destination prompt: no prompt, no temp directory, no write, no archiver.
C9_EmptyCollectionStops ==
  (paneAvail /\ collAvail /\ nItems = 0) =>
    /\ io = {}
    /\ ~tempRoot /\ bagit = "absent" /\ ~dataDir
    /\ zipCalls = 0
    /\ callerSaw # "error"

\* C10: after the destination chooser returned cancelled nothing but the
\* prompt has happened: no temp directory, no bagit.txt, no data directory,
\* no record processed, no archiver call, no archive, no error; the job ends
\* with a normal return.
C10_CancelSilent ==
  picked = "cancel" =>
    /\ io = {"prompt"}
    /\ ~tempRoot /\ bagit = "absent" /\ ~dataDir /\ dirs = {} /\ files = {}
    /\ \A r \in Records : calls[r] = 0 /\ ipc[r] = "idle"
    /\ zipCalls = 0 /\ ~archive /\ ~completed
    /\ callerSaw = "ok" /\ ~unhandled
    /\ pc \in {"settled", "done"}

\* C10 witness: the chooser was cancelled for a non-empty collection and the
\* job has ended.
C10_Witness ==
  /\ picked = "cancel"
  /\ nItems > 0
  /\ pc = "done"

\* Single left-to-right pass that reads each of the five entity references
\* back into its character.
IsPrefix(p, t) == Len(p) <= Len(t) /\ SubSeq(t, 1, Len(p)) = p

RECURSIVE unescape(_)
unescape(t) ==
  IF t = <<>> THEN <<>>
  ELSE IF \E c \in Specials : IsPrefix(Entity(c), t)
    THEN LET c == CHOOSE d \in Specials : IsPrefix(Entity(d), t) IN
         <<c>> \o unescape(SubSeq(t, Len(Entity(c)) + 1, Len(t)))
    ELSE <<Head(t)>> \o unescape(Tail(t))

\* The character-by-character map of the five special characters.
RECURSIVE CharMap(_)
CharMap(t) ==
  IF t = <<>> THEN <<>>
  ELSE (IF Head(t) \in Specials THEN Entity(Head(t)) ELSE <<Head(t)>>) \o CharMap(Tail(t))

\* Every "&" of t starts one of the five entity references.
AmpOnlyInEntities(t) ==
  \A k \in 1..Len(t) :
    t[k] = "&" => \E c \in Specials : IsPrefix(Entity(c), SubSeq(t, k, Len(t)))

HasChar(t, cs) == \E k \in 1..Len(t) : t[k] \in cs

\* C11: the escaper is the character-by-character entity map: its output has
\* no raw < > " ', has & only at the start of an entity reference, and
\* unescaping it once gives the input back.
C11_EscapeRoundTrip ==
  (fpc = "done" /\ fOut.fn \in {"escapeXml", "sanitize"}) =>
    /\ fOut.text = CharMap(fText)
    /\ ~HasChar(fOut.text, {"<", ">", "\"", "'"})
    /\ AmpOnlyInEntities(fOut.text)
    /\ unescape(fOut.text) = fText


(***************************************************************************)
(* Generated documents                                                     *)
(***************************************************************************)

RECURSIVE Descendants(_)
Descendants(nodes) ==
  IF nodes = <<>> THEN {}
  ELSE {Head(nodes)} \cup Descendants(Head(nodes).kids) \cup Descendants(Tail(nodes))

Generated == fpc = "done" /\ fOut.status = "Ok" /\ fOut.doc # <<>>

Elements(el) == {n \in Descendants(fOut.doc) : n.el = el}

\* C12: no text of a generated document, rich or simple, holds a raw "<" or
\* ">": record text reaches the document only in escaped form.
C12_InjectionSafety ==
  Generated => \A n \in Descendants(fOut.doc) : ~HasChar(n.text, {"<", ">"})

\* A title holding markup was written into a rich document, escaped.
C12_Witness ==
  /\ Generated /\ fOut.fn = "generateMODSJs"
  /\ fItem.title = Markup /\ fItem.rights = Some(Markup)
  /\ \E n \in Elements("title") : n.text = <<"&", "a", "m", "p", ";", "l", "t", ";", "b",
                                                 "&", "a", "m", "p", ";", "g", "t", ";">>


\* C13: the declaration file holds exactly the two LF-terminated lines
\* "BagIt-Version: 0.97" and "Tag-File-Character-Encoding: UTF-8", and it is
\* there before anything is written for a record.
C13_DeclarationFile ==
  /\ bagit # "absent" => bagit = "BagIt-Version: 0.97\nTag-File-Character-Encoding: UTF-8\n"
  /\ (dataDir \/ dirs # {} \/ files # {}) => bagit # "absent"


RichGenerators == {"generateMODSJs", "generateMODS", "legacyGenerateMODS"}

SimpleGenerators == {"generateDC", "generateDCDom", "legacyGenerateDC"}

Root == fOut.doc[Len(fOut.doc)]

\* The children of the root element whose name is in els, in document order.
Children(els) == SelectSeq(Root.kids, LAMBDA n : n.el \in els)

\* What a reader of the document gets from a text.
Reads(text, value) == unescape(text) = value

FullNameOf(creator) ==
  IF creator.firstName # None
    THEN creator.firstName[1] \o <<" ">> \o creator.lastName
    ELSE creator.lastName

\* The type table of the simple document.
TypeTable(itemType) ==
  IF itemType \in {Some(<<"book">>), Some(<<"journalArticle">>),
                   Some(<<"conferencePaper">>), Some(<<"thesis">>)} THEN <<"Text">>
  ELSE IF itemType = Some(<<"webpage">>) THEN <<"InteractiveResource">>
  ELSE IF itemType = Some(<<"film">>) THEN <<"MovingImage">>
  ELSE IF itemType = Some(<<"audioRecording">>) THEN <<"Sound">>
  ELSE IF itemType = Some(<<"artwork">>) THEN <<"Image">>
  ELSE <<"Text">>

\* C14: the simple document always has one type element, holding the table
\* entry of a known itemType and "Text" for an unknown or absent one.
C14_TypeElement ==
  (Generated /\ fOut.fn \in SimpleGenerators) =>
    LET types == Children({"dc:type"}) IN
      Len(types) = 1 /\ Reads(types[1].text, TypeTable(fItem.itemType))

\* C15: the rich document has one personal name block per creator, in source
\* order, whose name part is the full name and whose role term is the
\* creator's role whenever that role is not empty.
C15_NameBlocks ==
  (Generated /\ fOut.fn \in RichGenerators) =>
    LET names == Children({"name"}) IN
      /\ Len(names) = Len(fItem.creators)
      /\ \A i \in 1..Len(names) :
           LET parts == {n \in Descendants(names[i].kids) : n.el = "namePart"}
               roles == {n \in Descendants(names[i].kids) : n.el = "roleTerm"}
               creator == fItem.creators[i]
           IN /\ "type=personal" \in names[i].attrs
              /\ \E n \in parts : Reads(n.text, FullNameOf(creator))
              /\ creator.creatorType # <<>> =>
                   \E n \in roles : Reads(n.text, creator.creatorType)

\* C16: in the simple document every creator yields one element in source
\* order, a creator element for the roles author and creator and a
\* contributor element for every other role; there is exactly one identifier
\* element; every tag yields one subject element in tag-list order.
C16_CreatorsAndSubjects ==
  (Generated /\ fOut.fn \in SimpleGenerators) =>
    LET people == Children({"dc:creator", "dc:contributor"})
        subjects == Children({"dc:subject"})
        tags == IF fItem.tags = None THEN <<>> ELSE fItem.tags[1]
    IN /\ Len(Children({"dc:identifier"})) = 1
       /\ Len(people) = Len(fItem.creators)
       /\ \A i \in 1..Len(people) :
            /\ people[i].el = (IF fItem.creators[i].creatorType \in {<<"author">>, <<"creator">>}
                                 THEN "dc:creator" ELSE "dc:contributor")
            /\ Reads(people[i].text, FullNameOf(fItem.creators[i]))
       /\ Len(subjects) = Len(tags)
       /\ \A i \in 1..Len(subjects) : Reads(subjects[i].text, tags[i])

\* C17: every generated document begins with the XML declaration and its
\* root element carries the schema namespace and the schema location.
C17_DeclarationAndRoot ==
  Generated =>
    /\ fOut.doc[1] = [el |-> "?xml", attrs |-> {"version=1.0", "encoding=UTF-8"},
                      text |-> <<>>, kids |-> <<>>]
    /\ Len(fOut.doc) = 2
    /\ "xsi:schemaLocation" \in Root.attrs
    /\ fOut.fn \in RichGenerators => Root.el = "mods" /\ "xmlns" \in Root.attrs
    /\ fOut.fn \in SimpleGenerators => Root.el = "oai_dc:dc" /\ "xmlns:dc" \in Root.attrs

\* C18: a record with a creator whose family name is empty gets an error
\* from the generators, never a document.
C18_EmptyFamilyNameIsError ==
  (/\ fpc = "done" /\ fOut.fn \in RichGenerators \cup SimpleGenerators
   /\ \E i \in 1..Len(fItem.creators) : fItem.creators[i].lastName = <<>>)
    => fOut.status # "Ok" /\ fOut.doc = <<>>


\* C19: a null record makes the generators fail with their "Cannot generate
\* ..." error and no document, while a record that merely lacks optional
\* fields always gets a document.
C19_NullRecordFails ==
  /\ (fpc = "done" /\ fOut.fn = "legacyGenerateMODS" /\ fItem.isNull) =>
       /\ fOut.status = "Throw" /\ fOut.doc = <<>>
       /\ fOut.msg = "Cannot generate MODS: item is null or undefined"
  /\ (fpc = "done" /\ fOut.fn = "legacyGenerateDC" /\ fItem.isNull) =>
       /\ fOut.status = "Throw" /\ fOut.doc = <<>>
       /\ fOut.msg = "Cannot generate Dublin Core: item is null or undefined"
  /\ (fpc = "done" /\ fOut.fn \in RichGenerators \cup SimpleGenerators /\ ~fItem.isNull) =>
       fOut.status = "Ok" /\ fOut.doc # <<>>

\* The rich generator was handed a null record and threw.
C19_Witness ==
  fpc = "done" /\ fOut.fn = "legacyGenerateMODS" /\ fItem.isNull /\ fOut.status = "Throw"


\* The bag root and everything below it.
bagVars == <<tempRoot, bagit, dataDir, dirs, files>>

\* C20: the archiver is invoked only when every record of the collection has
\* its outcome, and from its first invocation on nothing is created or
\* written under the bag root.
C20_ArchiveAfterAllRecords ==
  /\ [](Archiving => \A r \in Collection : Done(r))
  /\ [][Archiving => UNCHANGED bagVars]_vars

\* The archiver ran on a collection of several records processed in
\* parallel, each of which had written its files.
C20_Witness ==
  /\ Archiving /\ impl = "js" /\ nItems >= 2
  /\ \A r \in Collection : Saved(r) /\ FilesOf(r) # {}


(***************************************************************************)
(* The item processor, step by step                                        *)
(***************************************************************************)

\* The step that follows position p in a run of the operation that goes on.
StepAfter(p) ==
  CASE p \in {"idle", "delay"} -> "lookup"
    [] p = "lookup" -> "path"
    [] p = "path" -> IF impl = "js" THEN "validate" ELSE "mkdir"
    [] p = "validate" -> "mkdir"
    [] p = "mkdir" -> "gen"
    [] p = "gen" -> "wmods"
    [] p = "wmods" -> "wdc"
    [] p = "wdc" -> "copy"
    [] OTHER -> "done"

\* C21: the effects on a record occur in the order lookup, path resolution,
\* directory creation, generation, write of MODS.bin, write of DC.xml, copy
\* to CWRC.bin; no file is in data/<id>/ unless that directory exists, and
\* CWRC.bin is the last file written.
C21_EffectOrder ==
  /\ [](\A r \in Collection :
          /\ FilesOf(r) # {} => r \in dirs
          /\ <<r, DC_FILENAME>> \in files => <<r, MODS_FILENAME>> \in files
          /\ <<r, CWRC_FILENAME>> \in files => <<r, DC_FILENAME>> \in files
          /\ Saved(r) => FilesOf(r) = ItemFiles)
  /\ [][\A r \in Collection :
          /\ ipc'[r] # ipc[r] => ipc'[r] \in {StepAfter(ipc[r]), "done", "delay"}
          /\ <<r, CWRC_FILENAME>> \in files => FilesOf(r)' = FilesOf(r)]_vars

\* A record went through every step and ended Saved.
C21_Witness ==
  \E r \in Collection :
    Saved(r) /\ resolved[r] /\ r \in dirs /\ FilesOf(r) = ItemFiles /\ impl = "res"


\* C22: a record whose resolved attachment path does not exist or is not
\* readable ends Skipped, not Failed, and nothing was created for it: no
\* data/<id>/ directory and no metadata file.
C22_InvalidPathSkipped ==
  \A r \in Collection :
    (Done(r) /\ opRes[r].val = "Invalid") =>
      /\ Skipped(r) /\ ret[r] # "false"
      /\ r \notin dirs
      /\ FilesOf(r) = {}


\* A structural prerequisite was attempted and failed.
PrerequisiteFailed ==
  \/ "tmp" \in io /\ ~tempRoot
  \/ "bagit" \in io /\ bagit = "absent"
  \/ "data" \in io /\ ~dataDir

C24_CollisionIsError ==
  (fpc = "done" /\ fOut.fn \in {"ensureDirectory", "mkdir", "legacyMkdir"}
   /\ fDir.state = "file")
    => fOut.status # "Ok"


(***************************************************************************)
(* Retry                                                                   *)
(***************************************************************************)

\* The wait the schedule prescribes after the failure of attempt k.
Backoff(k) == 1000 * 2 ^ (k - 1)

\* Some retry is waiting for its timeout.
Waiting == pc = "zipdelay" \/ \E r \in Collection : ipc[r] = "delay"

\* C25: after a failed attempt k < maxAttempts the retry waits 1000 * 2^(k-1)
\* ms before attempt k+1, that is 1000 ms before attempt 2 and 2000 ms
\* before attempt 3; there is no wait before attempt 1 and none after the
\* failure of the last attempt.
C25_BackoffSchedule ==
  /\ [](\A r \in Collection :
          ipc[r] = "delay" =>
            /\ attempt[r] < maxAttempts
            /\ timer = Backoff(attempt[r])
            /\ attempt[r] = 1 => timer = 1000
            /\ attempt[r] = 2 => timer = 2000)
  /\ [](pc = "zipdelay" => zipAttempt < maxAttempts /\ timer = Backoff(zipAttempt))
  /\ [](timer # 0 => Waiting)
  /\ [][\A r \in Collection :
          attempt'[r] > attempt[r] =>
            \/ attempt'[r] = 1 /\ timer = 0 /\ timer' = 0
            \/ ipc[r] = "delay" /\ attempt'[r] = attempt[r] + 1]_vars

\* A record waits 2000 ms after the failure of its second attempt.
C25_Witness ==
  \E r \in Collection : ipc[r] = "delay" /\ attempt[r] = 2 /\ timer = 2000


\* C26: the retry re-runs the whole operation: after a throw the next attempt
\* starts again at the attachment lookup, creating the record directory that
\* is already there is not an error, and a record that ends Saved after
\* retries has its directory with exactly MODS.bin, DC.xml and CWRC.bin.
C26_RetryReentrant ==
  /\ [](\A r \in Collection : Saved(r) => r \in dirs /\ FilesOf(r) = ItemFiles)
  /\ [][\A r \in Collection :
          /\ (ipc[r] = "delay" /\ ipc'[r] # "delay") =>
               ipc'[r] = "lookup" /\ attempt'[r] = attempt[r] + 1
          /\ (ipc[r] = "mkdir" /\ r \in dirs /\ ipc'[r] # "mkdir") =>
               ipc'[r] = "gen" /\ dirs' = dirs
          /\ (attempt[r] >= 2 /\ ipc[r] = "copy" /\ ipc'[r] = "done"
              /\ <<r, CWRC_FILENAME>> \in files') =>
               Saved(r)' /\ FilesOf(r)' = ItemFiles]_vars

\* After a throw in the first attempt the second attempt has run again from
\* the lookup, passed the directory that was already there, written both
\* metadata files, and its copy can end the record Saved.
C26_Witness ==
  \E r \in Collection :
    /\ attempt[r] = 2 /\ ipc[r] = "copy" /\ r \in dirs
    /\ FilesOf(r) = {MODS_FILENAME, DC_FILENAME}
    /\ ENABLED (resCopy(r) /\ Saved(r)')


\* C27: an export that has begun processing runs to completion: every
\* record's operation is invoked at most maxAttempts times, the archiver at
\* most maxAttempts times, and the job eventually reaches its final outcome.
C27_Termination ==
  /\ [](\A r \in Records : attempt[r] <= maxAttempts)
  /\ [](zipCalls <= maxAttempts)
  /\ (pc = "items") ~> (pc = "done" /\ zipResult \in {"Ok", "Error"})

\* The job ended after both a record and the archiver used all attempts.
C27_Witness ==
  /\ pc = "done" /\ zipCalls = maxAttempts /\ zipResult = "Error" /\ nItems >= 2
  /\ \E r \in Collection : opRes[r] = RetryError


(***************************************************************************)
(* Parallel chains                                                         *)
(***************************************************************************)

\* Everything the job holds about record r: its position, its outcome and
\* what exists under data/<r>/.
PartOf(r) == <<ipc[r], opRes[r], ret[r], r \in dirs, FilesOf(r)>>

\* C28: with the chains of the records running in parallel, a step of one
\* record creates or writes only under that record's own directory and
\* leaves every other record's state and outcome alone, so the payload and
\* the outcomes are the same for every interleaving.
C28_DisjointWrites ==
  /\ [](impl = "js" => \A p \in files : p[1] \in dirs /\ p[1] \in Collection)
  /\ [][(impl = "js" /\ pc = "items") =>
          \A r1 \in Collection, r2 \in Collection :
            (r1 # r2 /\ PartOf(r1)' # PartOf(r1)) => PartOf(r2)' = PartOf(r2)]_vars
  /\ [][(impl = "js" /\ pc = "items") =>
          \A r \in Collection :
            (ipc'[r] = ipc[r]) => PartOf(r)' = PartOf(r)]_vars

\* The chains interleaved: a later record is Saved while an earlier one is
\* still resolving its path.
C28_Witness ==
  /\ impl = "js" /\ pc = "items"
  /\ \E r1 \in Collection, r2 \in Collection :
       r1 < r2 /\ ipc[r1] = "path" /\ Saved(r2) /\ FilesOf(r2) = ItemFiles


(***************************************************************************)
(* doExport's tally and handleMessage                                      *)
(***************************************************************************)

Tally == successCount + failureCount

\* C29: successCount and failureCount start at 0 and never decrease, every
\* processed record adds one to exactly one of them, so after i records
\* their sum is i, and when the archiver is invoked the sum is the number of
\* records of the collection.
C29_TallyInvariant ==
  /\ [](impl = "res" =>
          /\ successCount >= 0 /\ failureCount >= 0
          /\ Tally = Cardinality({r \in Collection : Done(r)})
          /\ pc = "items" => Tally = idx - 1
          /\ Archiving => Tally = nItems)
  /\ [][/\ successCount' >= successCount /\ failureCount' >= failureCount
        /\ \A r \in Collection :
             (impl = "res" /\ ~Done(r) /\ Done(r)') =>
               \/ successCount' = successCount + 1 /\ failureCount' = failureCount
               \/ successCount' = successCount /\ failureCount' = failureCount + 1]_vars

\* The archiver was invoked after records of both kinds were tallied.
C29_Witness ==
  impl = "res" /\ Archiving /\ successCount >= 1 /\ failureCount >= 1 /\ Tally = nItems


\* C30: handleMessage calls sendResponse exactly once per message: at once
\* with "pong" for a ping and with "error" for an unknown type, returning
\* false; for "export-collection" it returns true and responds only when
\* doExport has settled, with "success" if it resolved and "error" if it
\* rejected.
C30_RespondsOnce ==
  /\ [](impl = "res" => Len(responses) <= 1)
  /\ [](impl = "res" /\ msgType = "ping" => responses = <<"pong">> /\ returned = "false")
  /\ [](impl = "res" /\ msgType = "other" => responses = <<"error">> /\ returned = "false")
  /\ [](impl = "res" /\ msgType = "export-collection" =>
          /\ returned = "true"
          /\ pc # "done" => responses = <<>>
          /\ pc = "done" =>
               responses = <<IF callerSaw = "ok" THEN "success" ELSE "error">>)
  /\ [][responses' # responses =>
          \/ msgType = "none" /\ msgType' \in {"ping", "other"}
          \/ msgType = "export-collection" /\ pc = "settled" /\ callerSaw # "none"]_vars

\* doExport rejected and the handler answered "error", once.
C30_Witness ==
  /\ impl = "res" /\ msgType = "export-collection" /\ pc = "done"
  /\ callerSaw = "error" /\ responses = <<"error">> /\ returned = "true"

====
